---------------------------- MODULE Spec2Model ----------------------------
(***************************************************************************)
(* Model of idb's companion supervisor (idb/common/companion_spawner.py)   *)
(* and of its streaming install protocol (idb/ipc/install.py): the sender  *)
(* _install_to_destination and the relay daemon.                           *)
(*                                                                         *)
(* Three specifications share the module, one per subsystem:               *)
(*   SpawnerSpec  CompanionSpawner: spawn_companion, _read_stream,         *)
(*                kill_spawned_companion, close                            *)
(*   InstallSpec  _install_to_destination                                  *)
(*   RelaySpec    daemon                                                   *)
(* The variables of the other subsystems keep their initial values.        *)
(***************************************************************************)
EXTENDS Integers, Sequences, FiniteSets, TLC

\* ------------------------------------------------------------------ bounds

\* Number of spawn_companion calls a run of the supervisor makes.
MaxSpawns == 2
\* Longest standard-output script (in lines) of a companion in a handshake run.
MaxLines == 3

\* ---------------------------------------------------------------- state

\* CompanionSpawner
VARIABLES
    companion_path,       \* self.companion_path
    companion_processes,  \* self.companion_processes: the registry, a list of processes
    call,                 \* the spawn_companion coroutines, by call id
    proc,                 \* the operating system's view of each launched companion
    last_op,              \* the supervisor operation that completed last (history)
    env                   \* what the run's environment does: the number of spawn
                          \* calls made, the lines a companion may write and the
                          \* longest stdout script of a companion

spawnerVars == <<companion_path, companion_processes, call, proc, last_op, env>>

\* _install_to_destination
VARIABLES
    i_bundle,       \* the bundle argument: a string or an open byte stream
    i_destination,  \* the destination argument
    i_pc,           \* where the coroutine is
    i_payload,      \* the local payload (string bundle)
    i_gen,          \* what the chunk generator has still to yield (byte stream)
    i_log,          \* what happened on the stream, in order
    i_peer,         \* the response the peer has sent and the client has not read
    i_result        \* the InstalledArtifact returned

installVars ==
    <<i_bundle, i_destination, i_pc, i_payload, i_gen, i_log, i_peer, i_result>>

\* daemon
VARIABLES
    is_local,             \* client.is_local
    inbound,              \* the messages the inbound caller sends, in order
    in_sent,              \* how many of them it has sent
    in_ended,             \* whether it has signalled the end of its stream
    in_rd,                \* how many of them the daemon has received
    d_pc,                 \* where the coroutine is
    destination_message,  \* the daemon's locals
    payload_message,
    response,
    files,                \* the relay host's files, as read by the chunk generators
    d_gen,                \* what the chunk generator has still to yield
    forward_log,          \* what happened on forward_stream, in order
    down_peer,            \* the response the downstream peer has sent, not yet read
    written               \* the responses written to the inbound caller, in order

relayVars ==
    <<is_local, inbound, in_sent, in_ended, in_rd, d_pc, destination_message,
      payload_message, response, files, d_gen, forward_log, down_peer, written>>

vars == <<spawnerVars, installVars, relayVars>>

Slots == 1..MaxSpawns
Udids == {"UDID1", "UDID2"}

\* The lines a companion may write to its standard output, as the bytes of the line.
LineGarbage == "starting up"
LineEmptyObject == "{}"
LineString == "\"no\""
LineOtherObject == "{\"status\": \"starting\"}"
LinePortZero == "{\"grpc_port\": 0}"
LinePortA == "{\"grpc_port\": 10882}"
LinePortB == "{\"grpc_port\": 10883}"
Lines ==
    {LineGarbage, LineEmptyObject, LineString, LineOtherObject,
     LinePortZero, LinePortA, LinePortB}

\* json.loads(line.decode()) of each line: the parsed value, or a JSONDecodeError.
\* kind: what Python value results; truthy: bool(value); port: value["grpc_port"].
json_loads(line) ==
    CASE line = LineGarbage ->
           [kind |-> "JSONDecodeError", truthy |-> FALSE, has_port |-> FALSE, port |-> 0]
      [] line = LineEmptyObject ->
           [kind |-> "dict", truthy |-> FALSE, has_port |-> FALSE, port |-> 0]
      [] line = LineString ->
           [kind |-> "str", truthy |-> TRUE, has_port |-> FALSE, port |-> 0]
      [] line = LineOtherObject ->
           [kind |-> "dict", truthy |-> TRUE, has_port |-> FALSE, port |-> 0]
      [] line = LinePortZero ->
           [kind |-> "dict", truthy |-> TRUE, has_port |-> TRUE, port |-> 0]
      [] line = LinePortA ->
           [kind |-> "dict", truthy |-> TRUE, has_port |-> TRUE, port |-> 10882]
      [] line = LinePortB ->
           [kind |-> "dict", truthy |-> TRUE, has_port |-> TRUE, port |-> 10883]

\* Sequences over S of length at most n.
SeqUpTo(S, n) == UNION {[1..k -> S] : k \in 0..n}

\* What one companion does with its standard output: the lines it writes, and
\* whether it then closes the stream (closes = FALSE: it keeps it open and silent).
Scripts(alphabet, n) == [lines : SeqUpTo(alphabet, n), closes : BOOLEAN]

\* Outcomes of a spawn_companion call.
Running == [kind |-> "running", port |-> 0]
Returned(p) == [kind |-> "return", port |-> p]
Raised(e) == [kind |-> e, port |-> 0]

NoCall == [pc |-> "none", udid |-> "", result |-> Running]
NoProc == [status |-> "none", udid |-> "", stdout |-> [lines |-> <<>>, closes |-> FALSE],
           rd |-> 0]

\* CompanionSpawner.__init__: the path as given, an empty registry.
NewSpawner ==
    /\ companion_path \in {"", "/usr/local/bin/idb_companion"}
    /\ companion_processes = <<>>
    /\ call = [s \in Slots |-> NoCall]
    /\ proc = [s \in Slots |-> NoProc]
    /\ last_op = "init"

\* A supervisor used for several targets; each companion writes at most one line:
\* a port announcement, or a line that is none.
SpawnerInit ==
    /\ NewSpawner
    /\ env = [spawns |-> MaxSpawns, lines |-> 1,
              alphabet |-> {LineString, LinePortA, LinePortB}]

\* A supervisor used for one target, whose companion writes up to MaxLines lines.
HandshakeInit ==
    /\ NewSpawner
    /\ env = [spawns |-> 1, lines |-> MaxLines, alphabet |-> Lines]

\* ------------------------------------------- CompanionSpawner: operations

\* A supervisor that launches the process and does not record it.
RegistryAppend_forgotten(registry, p) == registry

\* A supervisor whose registry holds the last process launched and no other.
RegistryAppend_overwrite(registry, p) == <<p>>

\* self.companion_processes.append(process)
RegistryAppend(registry, p) == Append(registry, p)

\* spawn_companion(target_udid) up to its first suspension point: the check of
\* companion_path, the command line, the log file, and the call of
\* create_subprocess_exec, which is awaited.
spawn_companion(udid) ==
    /\ \E s \in Slots :
         /\ s <= env.spawns
         /\ call[s].pc = "none"
         /\ \A r \in Slots : r < s => call[r].pc # "none"
         /\ IF companion_path = ""
              THEN /\ call' = [call EXCEPT ![s] =
                             [pc |-> "done", udid |-> udid,
                              result |-> Raised("ConfigurationError")]]
                   /\ last_op' = "spawn_raise"
              ELSE /\ call' = [call EXCEPT ![s] =
                             [pc |-> "creating", udid |-> udid, result |-> Running]]
                   /\ UNCHANGED last_op
    /\ UNCHANGED <<companion_path, companion_processes, proc, env>>
    /\ UNCHANGED <<installVars, relayVars>>

\* create_subprocess_exec returns: the process exists, stdout is a pipe (so
\* process.stdout is set), and with no suspension point in between the process is
\* appended to the registry; the coroutine then awaits _read_stream.
subprocess_created(s) ==
    /\ call[s].pc = "creating"
    /\ \E script \in Scripts(env.alphabet, env.lines) :
         proc' = [proc EXCEPT ![s] =
                    [status |-> "running", udid |-> call[s].udid, stdout |-> script,
                     rd |-> 0]]
    /\ companion_processes' = RegistryAppend(companion_processes, s)
    /\ call' = [call EXCEPT ![s].pc = "reading"]
    /\ UNCHANGED <<companion_path, last_op, env>>
    /\ UNCHANGED <<installVars, relayVars>>

\* Whether stream.readline() can return: a line is buffered, or the stream is at
\* its end (the companion closed it, or the companion is gone).
LineReady(p) == p.rd < Len(p.stdout.lines)
\* A readline() that gives up on a silent stream as if it had ended.
AtEof_timeout(p) == ~LineReady(p)
AtEof(p) == ~LineReady(p) /\ (p.stdout.closes \/ p.status # "running")

\* The rest of spawn_companion after _read_stream returned port.
AfterReadStream(port) ==
    IF port = 0 THEN Raised("HandshakeFailure") ELSE Returned(port)

\* What one iteration of _read_stream's loop does with a non-empty line:
\* "continue" (the loop reads again) or the outcome of spawn_companion.
OnLine(line) ==
    LET update == json_loads(line) IN
    CASE update.kind = "JSONDecodeError" -> Raised("JSONDecodeError")
      [] ~update.truthy -> Running
      [] update.kind = "dict" /\ update.has_port -> AfterReadStream(update.port)
      [] update.kind = "dict" -> Raised("KeyError")
      [] OTHER -> Raised("TypeError")

\* One iteration of _read_stream's loop, from the return of readline() to the next
\* readline() or to the end of spawn_companion.
read_line(s) ==
    /\ call[s].pc = "reading"
    /\ LET p == proc[s] IN
        \/ /\ LineReady(p)
           /\ LET res == OnLine(p.stdout.lines[p.rd + 1]) IN
              /\ proc' = [proc EXCEPT ![s].rd = p.rd + 1]
              /\ call' = [call EXCEPT ![s].result = res,
                                      ![s].pc = IF res = Running THEN "reading" ELSE "done"]
              /\ last_op' = IF res.kind = "return" THEN "spawn_return"
                            ELSE IF res = Running THEN last_op ELSE "spawn_raise"
        \/ /\ AtEof(p)
           /\ proc' = proc
           /\ call' = [call EXCEPT ![s].result = AfterReadStream(0), ![s].pc = "done"]
           /\ last_op' = "spawn_raise"
    /\ UNCHANGED <<companion_path, companion_processes, env>>
    /\ UNCHANGED <<installVars, relayVars>>

\* os.kill(p.pid, signal.SIGTERM) and process.terminate(): a running process is
\* signalled and terminates; a process that exited and was not yet waited for still has
\* its pid; a process that was waited for has none, and ProcessLookupError is raised.
SignalRaises(p) == p.status = "reaped"
Signal(p) ==
    IF p.status = "reaped" THEN p
    ELSE [p EXCEPT !.status = IF p.status = "running" THEN "zombie" ELSE p.status]

\* for p in self.companion_processes: <signal p>, from index i on: the processes
\* after the loop, which an exception of the signalling ends.
RECURSIVE SignalLoop(_, _, _)
SignalLoop(registry, procs, i) ==
    IF i > Len(registry) THEN procs
    ELSE IF SignalRaises(procs[registry[i]]) THEN procs
    ELSE SignalLoop(registry, [procs EXCEPT ![registry[i]] = Signal(@)], i + 1)

\* kill_spawned_companion(): also the atexit hook registered by __init__.
kill_spawned_companion ==
    /\ proc' = SignalLoop(companion_processes, proc, 1)
    /\ last_op' = "kill"
    /\ UNCHANGED <<companion_path, companion_processes, call, env>>
    /\ UNCHANGED <<installVars, relayVars>>

\* A close() that also forgets the processes it has stopped.
close_and_clear ==
    /\ proc' = SignalLoop(companion_processes, proc, 1)
    /\ companion_processes' = <<>>
    /\ last_op' = "close"
    /\ UNCHANGED <<companion_path, call, env>>
    /\ UNCHANGED <<installVars, relayVars>>

\* close()
close ==
    /\ proc' = SignalLoop(companion_processes, proc, 1)
    /\ last_op' = "close"
    /\ UNCHANGED <<companion_path, companion_processes, call, env>>
    /\ UNCHANGED <<installVars, relayVars>>

\* The companion exits on its own (a crash, or the end of its work).
companion_exits(s) ==
    /\ proc[s].status = "running"
    /\ proc' = [proc EXCEPT ![s].status = "zombie"]
    /\ UNCHANGED <<companion_path, companion_processes, call, last_op, env>>
    /\ UNCHANGED <<installVars, relayVars>>

\* asyncio's child watcher waits for the exited companion: its pid is released.
child_reaped(s) ==
    /\ proc[s].status = "zombie"
    /\ proc' = [proc EXCEPT ![s].status = "reaped"]
    /\ UNCHANGED <<companion_path, companion_processes, call, last_op, env>>
    /\ UNCHANGED <<installVars, relayVars>>

SpawnerNext ==
    \/ \E u \in Udids : spawn_companion(u)
    \/ \E s \in Slots : subprocess_created(s)
    \/ \E s \in Slots : read_line(s)
    \/ kill_spawned_companion
    \/ close
    \/ \E s \in Slots : companion_exits(s)
    \/ \E s \in Slots : child_reaped(s)

\* --------------------------------------------------- install protocol: data

\* Block size of the fixed-block readers.
CHUNK_SIZE == 16384
\* Largest file or byte stream, in whole blocks.
MaxBlocks == 2

\* InstallRequest.Destination
Destinations == {"APP", "XCTEST", "DYLIB", "DSYM", "FRAMEWORK"}

\* A path is its directory, the stem of its last component and that component's
\* suffix: "/tmp/x.dylib" is [dir |-> "/tmp", name |-> "x", ext |-> ".dylib"].
\* dir = "" is a relative path. NoPath is the empty string.
NoPath == [dir |-> "", name |-> "", ext |-> ""]
Exts == {".ipa", ".app", ".xctest", ".dylib", ".dSYM", ".framework", ".txt"}

\* Sizes in bytes of the files and byte streams: around the block boundaries.
Sizes == {k * CHUNK_SIZE + r : k \in 0..MaxBlocks, r \in {0, 1}}

\* A run of bytes: bytes off .. off+len-1 of the source src (a byte stream, a file,
\* the output of an archiver over the paths `of`). NoData is b"".
NoData == [src |-> "", of |-> <<>>, off |-> 0, len |-> 0]
Bytes(src, of, off, len) == [src |-> src, of |-> of, off |-> off, len |-> len]

\* Payload, with the defaults of its unset fields.
NoUrl == [scheme |-> "", dir |-> "", name |-> "", ext |-> ""]
NoPayload == [url |-> NoUrl, file_path |-> NoPath, data |-> NoData]
PayloadUrl(u) == [NoPayload EXCEPT !.url = u]
PayloadFilePath(p) == [NoPayload EXCEPT !.file_path = p]
PayloadData(d) == [NoPayload EXCEPT !.data = d]

\* InstallRequest, with the defaults of its unset fields (destination 0 is APP).
NoName == [name |-> "", ext |-> ""]
RequestDestination(d) ==
    [which |-> "destination", destination |-> d, payload |-> NoPayload, name_hint |-> NoName]
RequestPayload(p) ==
    [which |-> "payload", destination |-> "APP", payload |-> p, name_hint |-> NoName]
RequestNameHint(n) ==
    [which |-> "name_hint", destination |-> "APP", payload |-> NoPayload, name_hint |-> n]

\* InstallResponse
Responses == {[name |-> "App", uuid |-> "abc"], [name |-> "x.dylib", uuid |-> "def"]}
NoResponse == [name |-> "", uuid |-> ""]

\* What happens on one side of a stream, in order: a message sent, the end of the
\* sending side signalled, a response read.
EvSend(m) == [ev |-> "send", msg |-> m, resp |-> NoResponse]
EvEnd == [ev |-> "end", msg |-> RequestPayload(NoPayload), resp |-> NoResponse]
EvRecv(r) == [ev |-> "recv", msg |-> RequestPayload(NoPayload), resp |-> r]

Min(a, b) == IF a < b THEN a ELSE b

\* ------------------------------------------------------------ ChunkEncoder

\* io.read(CHUNK_SIZE) / file.read(CHUNK_SIZE) at offset pos of a source of size bytes:
\* the number of bytes returned.
\* A read with no size limit: everything that is left.
read_all(size, pos) == size - pos
read(size, pos) == Min(CHUNK_SIZE, size - pos)

\* The loop shared by _generate_io_chunks and _generate_ipa_chunks: read a block; an
\* empty block ends the generator; otherwise yield it as a payload and read again.
RECURSIVE block_chunks(_, _, _, _)
block_chunks(src, of, size, pos) ==
    LET n == read(size, pos) IN
    IF n = 0 THEN <<>>
    ELSE <<RequestPayload(PayloadData(Bytes(src, of, pos, n)))>>
           \o block_chunks(src, of, size, pos + n)

\* io.read(CHUNK_SIZE) on the byte stream given as bundle. A buffered stream or a
\* regular file returns the whole block unless the stream ends in it; a raw stream
\* (a pipe, a socket) may return fewer bytes than asked for. io.first is the most
\* its first read returns.
io_read(io, pos) == Min(IF pos = 0 THEN io.first ELSE CHUNK_SIZE, io.size - pos)

\* _generate_io_chunks(io): the messages the generator yields, in order.
generate_io_chunks(io) ==
    LET n == io_read(io, 0) IN
    IF n = 0 THEN <<>>
    ELSE <<RequestPayload(PayloadData(Bytes("io", <<>>, 0, n)))>>
           \o block_chunks("io", <<>>, io.size, n)

\* Largest number of chunks an archiver or compressor yields for one input.
MaxArchiveChunks == 2

\* The files a generator reads: the size in bytes of the file read in blocks, and
\* the number of chunks the archiver or compressor yields for its input.
FileSystems == [size : Sizes, chunks : 1..MaxArchiveChunks]
NoFiles == [size |-> 0, chunks |-> 0]

\* tar.generate_tar(paths) and gzip.generate_gzip(path): the byte chunks, in the
\* encoder's order (chunk i of the encoding of the paths).
generate_tar(paths, fs) == [i \in 1..fs.chunks |-> Bytes("tar", paths, i, 1)]
generate_gzip(path, fs) == [i \in 1..fs.chunks |-> Bytes("gzip", <<path>>, i, 1)]

\* xctest_paths_to_tar(path): the paths a test bundle path stands for.
xctest_paths_to_tar(path) ==
    IF path.ext = ".xctest" THEN <<path>> ELSE <<path, [path EXCEPT !.ext = ""]>>

\* yield InstallRequest(payload=Payload(data=chunk)) for each chunk
data_messages(chunks) == [i \in 1..Len(chunks) |-> RequestPayload(PayloadData(chunks[i]))]

\* os.path.basename(path)
basename(path) == [name |-> path.name, ext |-> path.ext]

\* str.endswith
endswith(path, suffix) == path.ext = suffix

generate_ipa_chunks(path, fs) == block_chunks("file", <<path>>, fs.size, 0)
generate_app_chunks(path, fs) == data_messages(generate_tar(<<path>>, fs))
generate_xctest_chunks(path, fs) == data_messages(generate_tar(xctest_paths_to_tar(path), fs))
\* A generator that yields the name hint after the compressed chunks.
generate_dylib_chunks_hint_last(path, fs) ==
    data_messages(generate_gzip(path, fs)) \o <<RequestNameHint(basename(path))>>
generate_dylib_chunks(path, fs) ==
    <<RequestNameHint(basename(path))>> \o data_messages(generate_gzip(path, fs))
generate_dsym_chunks(path, fs) == data_messages(generate_tar(<<path>>, fs))
generate_framework_chunks(path, fs) == data_messages(generate_tar(<<path>>, fs))

\* _generate_binary_chunks(path, destination): the generator selected (ok, with the
\* messages it yields), or GRPCError FAILED_PRECONDITION (ok = FALSE).
Selected(chunks) == [ok |-> TRUE, chunks |-> chunks]
FailedPrecondition == [ok |-> FALSE, chunks |-> <<>>]
\* A selection that does not look at the suffix of an APP path: whatever is not an
\* .ipa is archived as an .app, and nothing is refused.
generate_binary_chunks_any_suffix(path, destination, fs) ==
    IF destination = "APP" THEN
        IF endswith(path, ".ipa") THEN Selected(generate_ipa_chunks(path, fs))
        ELSE Selected(generate_app_chunks(path, fs))
    ELSE IF destination = "XCTEST" THEN Selected(generate_xctest_chunks(path, fs))
    ELSE IF destination = "DYLIB" THEN Selected(generate_dylib_chunks(path, fs))
    ELSE IF destination = "DSYM" THEN Selected(generate_dsym_chunks(path, fs))
    ELSE Selected(generate_framework_chunks(path, fs))
generate_binary_chunks(path, destination, fs) ==
    IF destination = "APP" THEN
        IF endswith(path, ".ipa") THEN Selected(generate_ipa_chunks(path, fs))
        ELSE IF endswith(path, ".app") THEN Selected(generate_app_chunks(path, fs))
        ELSE FailedPrecondition
    ELSE IF destination = "XCTEST" THEN Selected(generate_xctest_chunks(path, fs))
    ELSE IF destination = "DYLIB" THEN Selected(generate_dylib_chunks(path, fs))
    ELSE IF destination = "DSYM" THEN Selected(generate_dsym_chunks(path, fs))
    ELSE IF destination = "FRAMEWORK" THEN Selected(generate_framework_chunks(path, fs))
    ELSE FailedPrecondition

\* --------------------------------------------- _install_to_destination: data

\* The strings given as bundle: a URL, a relative path and an absolute path that
\* exist, and a path that does not.
StrBundles ==
    {[kind |-> "str", scheme |-> "https", dir |-> "//example.com", name |-> "app", ext |-> ".ipa"],
     [kind |-> "str", scheme |-> "", dir |-> "", name |-> "app", ext |-> ".ipa"],
     [kind |-> "str", scheme |-> "", dir |-> "/tmp", name |-> "x", ext |-> ".dylib"],
     [kind |-> "str", scheme |-> "", dir |-> "", name |-> "missing", ext |-> ".app"]}
IoBundles == {[kind |-> "io", size |-> n, first |-> f] : n \in Sizes, f \in {CHUNK_SIZE, 1}}
Bundles == StrBundles \cup IoBundles

\* urllib.parse.urlparse(bundle).scheme
urlparse_scheme(bundle) == bundle.scheme

\* Path(bundle).resolve(strict=True): the absolute path, or FileNotFoundError
\* (ok = FALSE) when the file is not there. The working directory is /cwd.
path_resolve(bundle) ==
    IF bundle.name = "missing"
    THEN [ok |-> FALSE, path |-> NoPath]
    ELSE [ok |-> TRUE,
          path |-> [dir |-> IF bundle.dir = "" THEN "/cwd" ELSE bundle.dir,
                    name |-> bundle.name, ext |-> bundle.ext]]

\* The url field of Payload(url=bundle): the string as given.
UrlOf(bundle) ==
    [scheme |-> bundle.scheme, dir |-> bundle.dir, name |-> bundle.name, ext |-> bundle.ext]

\* No call of _install_to_destination is made.
InstallIdle ==
    /\ i_bundle = "-"
    /\ i_destination = "-"
    /\ i_pc = "idle"
    /\ i_payload = "-"
    /\ i_gen = <<>>
    /\ i_log = <<>>
    /\ i_peer = "-"
    /\ i_result = "-"

\* A call _install_to_destination(client, bundle, destination).
InstallInit ==
    /\ i_bundle \in Bundles
    /\ i_destination \in Destinations
    /\ i_pc = "start"
    /\ i_payload = NoPayload
    /\ i_gen = <<>>
    /\ i_log = <<>>
    /\ i_peer = NoResponse
    /\ i_result = NoResponse

\* ---------------------------------------- _install_to_destination: operations

\* The call up to the opening of the stream: the payload of a string bundle is built
\* (a URL when the string has a scheme, else the resolved path, which must exist),
\* then client.stub.install.open().
install_begin ==
    /\ i_pc = "start"
    /\ IF i_bundle.kind = "str"
       THEN IF urlparse_scheme(i_bundle) # ""
            THEN /\ i_payload' = PayloadUrl(UrlOf(i_bundle))
                 /\ i_pc' = "send_destination"
            ELSE LET r == path_resolve(i_bundle) IN
                 IF r.ok
                 THEN /\ i_payload' = PayloadFilePath(r.path)
                      /\ i_pc' = "send_destination"
                 ELSE /\ i_payload' = i_payload
                      /\ i_pc' = "FileNotFoundError"
       ELSE /\ i_payload' = i_payload
            /\ i_pc' = "send_destination"
    /\ UNCHANGED <<i_bundle, i_destination, i_gen, i_log, i_peer, i_result>>
    /\ UNCHANGED <<spawnerVars, relayVars>>

\* A sender that opens the stream and goes on without sending the destination.
send_destination_missing ==
    /\ i_pc = "send_destination"
    /\ IF i_bundle.kind = "str"
       THEN i_pc' = "send_payload" /\ i_gen' = i_gen
       ELSE i_pc' = "drain" /\ i_gen' = generate_io_chunks(i_bundle)
    /\ UNCHANGED <<i_bundle, i_destination, i_payload, i_log, i_peer, i_result>>
    /\ UNCHANGED <<spawnerVars, relayVars>>

\* await stream.send_message(InstallRequest(destination=destination)), in both
\* branches; in the byte-stream branch drain_to_stream is then called with the
\* generator _generate_io_chunks(io=bundle).
send_destination ==
    /\ i_pc = "send_destination"
    /\ i_log' = Append(i_log, EvSend(RequestDestination(i_destination)))
    /\ IF i_bundle.kind = "str"
       THEN i_pc' = "send_payload" /\ i_gen' = i_gen
       ELSE i_pc' = "drain" /\ i_gen' = generate_io_chunks(i_bundle)
    /\ UNCHANGED <<i_bundle, i_destination, i_payload, i_peer, i_result>>
    /\ UNCHANGED <<spawnerVars, relayVars>>

\* await stream.send_message(InstallRequest(payload=payload))
send_payload ==
    /\ i_pc = "send_payload"
    /\ i_log' = Append(i_log, EvSend(RequestPayload(i_payload)))
    /\ i_pc' = "end"
    /\ UNCHANGED <<i_bundle, i_destination, i_payload, i_gen, i_peer, i_result>>
    /\ UNCHANGED <<spawnerVars, relayVars>>

\* await stream.end()
stream_end ==
    /\ i_pc = "end"
    /\ i_log' = Append(i_log, EvEnd)
    /\ i_pc' = "recv"
    /\ UNCHANGED <<i_bundle, i_destination, i_payload, i_gen, i_peer, i_result>>
    /\ UNCHANGED <<spawnerVars, relayVars>>

\* response = await stream.recv_message(); return InstalledArtifact(...)
recv_message ==
    /\ i_pc = "recv"
    /\ i_peer # NoResponse
    /\ i_log' = Append(i_log, EvRecv(i_peer))
    /\ i_result' = [name |-> i_peer.name, uuid |-> i_peer.uuid]
    /\ i_peer' = NoResponse
    /\ i_pc' = "done"
    /\ UNCHANGED <<i_bundle, i_destination, i_payload, i_gen>>
    /\ UNCHANGED <<spawnerVars, relayVars>>

\* drain_to_stream (idb/grpc/stream.py), first part: every message of the generator
\* is sent, in the generator's order.
drain_send ==
    /\ i_pc = "drain"
    /\ i_gen # <<>>
    /\ i_log' = Append(i_log, EvSend(Head(i_gen)))
    /\ i_gen' = Tail(i_gen)
    /\ UNCHANGED <<i_bundle, i_destination, i_pc, i_payload, i_peer, i_result>>
    /\ UNCHANGED <<spawnerVars, relayVars>>

\* drain_to_stream, second part: the generator is exhausted, stream-end is signalled.
drain_end ==
    /\ i_pc = "drain"
    /\ i_gen = <<>>
    /\ i_log' = Append(i_log, EvEnd)
    /\ i_pc' = "drain_recv"
    /\ UNCHANGED <<i_bundle, i_destination, i_payload, i_gen, i_peer, i_result>>
    /\ UNCHANGED <<spawnerVars, relayVars>>

\* drain_to_stream, last part: one response is read and returned; the caller maps it
\* into the InstalledArtifact.
drain_recv ==
    /\ i_pc = "drain_recv"
    /\ i_peer # NoResponse
    /\ i_log' = Append(i_log, EvRecv(i_peer))
    /\ i_result' = [name |-> i_peer.name, uuid |-> i_peer.uuid]
    /\ i_peer' = NoResponse
    /\ i_pc' = "done"
    /\ UNCHANGED <<i_bundle, i_destination, i_payload, i_gen>>
    /\ UNCHANGED <<spawnerVars, relayVars>>

\* The peer of the session answers once, after it has seen the end of the requests.
HasEv(log, ev) == \E k \in 1..Len(log) : log[k].ev = ev
peer_responds ==
    /\ HasEv(i_log, "end")
    /\ ~HasEv(i_log, "recv")
    /\ i_peer = NoResponse
    /\ i_peer' \in Responses
    /\ UNCHANGED <<i_bundle, i_destination, i_pc, i_payload, i_gen, i_log, i_result>>
    /\ UNCHANGED <<spawnerVars, relayVars>>

InstallNext ==
    \/ install_begin
    \/ send_destination
    \/ send_payload
    \/ stream_end
    \/ recv_message
    \/ drain_send
    \/ drain_end
    \/ drain_recv
    \/ peer_responds

\* ------------------------------------------------------------ daemon: data

\* Longest run of messages the inbound caller sends after its first payload message.
MaxFollow == 2

\* The values the fields of the inbound payload message may hold.
InUrls == {NoUrl, [scheme |-> "https", dir |-> "//example.com", name |-> "app", ext |-> ".ipa"]}
InPaths ==
    {NoPath} \cup {[dir |-> "/tmp", name |-> "x", ext |-> e] : e \in Exts}
InDatas == {NoData, Bytes("in", <<>>, 0, 1)}

\* The second message of the inbound caller: a payload with any of its fields
\* populated or none, or a name hint.
FirstPayloads ==
    {RequestPayload([url |-> u, file_path |-> f, data |-> d]) :
        u \in InUrls, f \in InPaths, d \in InDatas}
    \cup {RequestNameHint([name |-> "x", ext |-> ".dylib"])}

\* The messages that may follow it.
FollowUps ==
    {RequestPayload(PayloadData(Bytes("in", <<>>, 1, 1))),
     RequestNameHint([name |-> "x", ext |-> ".dylib"])}

\* What an inbound caller sends before it ends its stream: nothing, a destination
\* alone, or a destination, a first payload message and the messages after it.
InboundScripts ==
    {<<>>}
    \cup {<<RequestDestination(d)>> : d \in Destinations}
    \cup {<<RequestDestination(d), m>> \o f :
            d \in Destinations, m \in FirstPayloads, f \in SeqUpTo(FollowUps, MaxFollow)}

\* No call of daemon is made.
RelayIdle ==
    /\ is_local = FALSE
    /\ inbound = <<>>
    /\ in_sent = 0
    /\ in_ended = FALSE
    /\ in_rd = 0
    /\ d_pc = "idle"
    /\ destination_message = "-"
    /\ payload_message = "-"
    /\ response = "-"
    /\ files = "-"
    /\ d_gen = <<>>
    /\ forward_log = <<>>
    /\ down_peer = "-"
    /\ written = <<>>

\* One call daemon(client, stream), made when an inbound session opens.
RelayInit ==
    /\ is_local \in BOOLEAN
    /\ inbound \in InboundScripts
    /\ in_sent = 0
    /\ in_ended = FALSE
    /\ in_rd = 0
    /\ d_pc = "recv_destination"
    /\ destination_message = RequestDestination("APP")
    /\ payload_message = RequestPayload(NoPayload)
    /\ response = NoResponse
    /\ files = NoFiles
    /\ d_gen = <<>>
    /\ forward_log = <<>>
    /\ down_peer = NoResponse
    /\ written = <<>>

\* ------------------------------------------------------ daemon: operations

\* The inbound caller sends its next message.
caller_sends ==
    /\ in_sent < Len(inbound)
    /\ in_sent' = in_sent + 1
    /\ UNCHANGED <<is_local, inbound, in_ended, in_rd, d_pc, destination_message,
                   payload_message, response, files, d_gen, forward_log, down_peer, written>>
    /\ UNCHANGED <<spawnerVars, installVars>>

\* The inbound caller signals the end of its stream.
caller_ends ==
    /\ in_sent = Len(inbound)
    /\ ~in_ended
    /\ in_ended' = TRUE
    /\ UNCHANGED <<is_local, inbound, in_sent, in_rd, d_pc, destination_message,
                   payload_message, response, files, d_gen, forward_log, down_peer, written>>
    /\ UNCHANGED <<spawnerVars, installVars>>

\* stream.recv_message() on the inbound stream can return: a message is there, or
\* the stream has ended (it then returns None).
InReady == in_rd < in_sent
InAtEnd == in_rd = Len(inbound) /\ in_ended

\* destination_message = none_throws(await stream.recv_message())
recv_destination ==
    /\ d_pc = "recv_destination"
    /\ \/ /\ InReady
          /\ destination_message' = inbound[in_rd + 1]
          /\ in_rd' = in_rd + 1
          /\ d_pc' = "recv_payload"
       \/ /\ InAtEnd
          /\ d_pc' = "AssertionError"
          /\ UNCHANGED <<destination_message, in_rd>>
    /\ UNCHANGED <<is_local, inbound, in_sent, in_ended, payload_message, response,
                   files, d_gen, forward_log, down_peer, written>>
    /\ UNCHANGED <<spawnerVars, installVars>>

\* payload_message = none_throws(await stream.recv_message()); the locals file_path,
\* url, data and destination are read from the two messages where they are used.
recv_payload ==
    /\ d_pc = "recv_payload"
    /\ \/ /\ InReady
          /\ payload_message' = inbound[in_rd + 1]
          /\ in_rd' = in_rd + 1
          /\ d_pc' = "open"
       \/ /\ InAtEnd
          /\ d_pc' = "AssertionError"
          /\ UNCHANGED <<payload_message, in_rd>>
    /\ UNCHANGED <<is_local, inbound, in_sent, in_ended, destination_message, response,
                   files, d_gen, forward_log, down_peer, written>>
    /\ UNCHANGED <<spawnerVars, installVars>>

\* A relay that opens forward_stream and does not forward the destination.
forward_destination_missing ==
    /\ d_pc = "open"
    /\ d_pc' = "branch"
    /\ UNCHANGED <<is_local, inbound, in_sent, in_ended, in_rd, destination_message,
                   payload_message, response, files, d_gen, forward_log, down_peer, written>>
    /\ UNCHANGED <<spawnerVars, installVars>>

\* async with client.stub.install.open() as forward_stream:
\*     await forward_stream.send_message(destination_message)
forward_destination ==
    /\ d_pc = "open"
    /\ forward_log' = Append(forward_log, EvSend(destination_message))
    /\ d_pc' = "branch"
    /\ UNCHANGED <<is_local, inbound, in_sent, in_ended, in_rd, destination_message,
                   payload_message, response, files, d_gen, down_peer, written>>
    /\ UNCHANGED <<spawnerVars, installVars>>

\* The conditions of the if / elif chain.
file_path == payload_message.payload.file_path
url == payload_message.payload.url
data == payload_message.payload.data
destination == destination_message.destination
\* A relay whose first branch tests client.is_local alone.
TakesVerbatim_local_only == is_local
TakesVerbatim == is_local \/ url # NoUrl
TakesFilePath == ~TakesVerbatim /\ file_path # NoPath
\* A relay whose third branch is an else and not an elif data.
TakesData_always == ~TakesVerbatim /\ file_path = NoPath
TakesData == ~TakesVerbatim /\ file_path = NoPath /\ data # NoData
TakesNone == ~TakesVerbatim /\ file_path = NoPath /\ data = NoData

\* if client.is_local or len(url): await forward_stream.send_message(payload_message)
verbatim_payload ==
    /\ d_pc = "branch"
    /\ TakesVerbatim
    /\ forward_log' = Append(forward_log, EvSend(payload_message))
    /\ d_pc' = "verbatim_end"
    /\ UNCHANGED <<is_local, inbound, in_sent, in_ended, in_rd, destination_message,
                   payload_message, response, files, d_gen, down_peer, written>>
    /\ UNCHANGED <<spawnerVars, installVars>>

\* await forward_stream.end()
verbatim_end ==
    /\ d_pc = "verbatim_end"
    /\ forward_log' = Append(forward_log, EvEnd)
    /\ d_pc' = "verbatim_recv"
    /\ UNCHANGED <<is_local, inbound, in_sent, in_ended, in_rd, destination_message,
                   payload_message, response, files, d_gen, down_peer, written>>
    /\ UNCHANGED <<spawnerVars, installVars>>

\* response = none_throws(await forward_stream.recv_message())
verbatim_recv ==
    /\ d_pc = "verbatim_recv"
    /\ down_peer # NoResponse
    /\ response' = down_peer
    /\ down_peer' = NoResponse
    /\ forward_log' = Append(forward_log, EvRecv(down_peer))
    /\ d_pc' = "respond"
    /\ UNCHANGED <<is_local, inbound, in_sent, in_ended, in_rd, destination_message,
                   payload_message, files, d_gen, written>>
    /\ UNCHANGED <<spawnerVars, installVars>>

\* elif file_path: the generator is selected by _generate_binary_chunks, which raises
\* for a destination and path it has no generator for; drain_to_stream is called
\* with the generator. The files it will read are those of the relay's host.
file_path_generator ==
    /\ d_pc = "branch"
    /\ TakesFilePath
    /\ \E fs \in FileSystems :
         LET g == generate_binary_chunks(file_path, destination, fs) IN
         /\ files' = fs
         /\ d_gen' = g.chunks
         /\ d_pc' = IF g.ok THEN "drain" ELSE "FAILED_PRECONDITION"
    /\ UNCHANGED <<is_local, inbound, in_sent, in_ended, in_rd, destination_message,
                   payload_message, response, forward_log, down_peer, written>>
    /\ UNCHANGED <<spawnerVars, installVars>>

\* A relay that hands the inbound stream to drain_to_stream without first
\* forwarding the payload message it has already read from it.
data_payload_dropped ==
    /\ d_pc = "branch"
    /\ TakesData
    /\ d_pc' = "relay"
    /\ UNCHANGED <<is_local, inbound, in_sent, in_ended, in_rd, destination_message,
                   payload_message, response, files, d_gen, forward_log, down_peer, written>>
    /\ UNCHANGED <<spawnerVars, installVars>>

\* elif data: await forward_stream.send_message(payload_message); drain_to_stream is
\* then called with the inbound stream as the generator.
data_payload ==
    /\ d_pc = "branch"
    /\ TakesData
    /\ forward_log' = Append(forward_log, EvSend(payload_message))
    /\ d_pc' = "relay"
    /\ UNCHANGED <<is_local, inbound, in_sent, in_ended, in_rd, destination_message,
                   payload_message, response, files, d_gen, down_peer, written>>
    /\ UNCHANGED <<spawnerVars, installVars>>

\* else: raise Exception(f"Unrecognised payload message")
unrecognised_payload ==
    /\ d_pc = "branch"
    /\ TakesNone
    /\ d_pc' = "Unrecognised payload message"
    /\ UNCHANGED <<is_local, inbound, in_sent, in_ended, in_rd, destination_message,
                   payload_message, response, files, d_gen, forward_log, down_peer, written>>
    /\ UNCHANGED <<spawnerVars, installVars>>

\* drain_to_stream with a chunk generator: each message it yields is sent.
chunk_send ==
    /\ d_pc = "drain"
    /\ d_gen # <<>>
    /\ forward_log' = Append(forward_log, EvSend(Head(d_gen)))
    /\ d_gen' = Tail(d_gen)
    /\ UNCHANGED <<is_local, inbound, in_sent, in_ended, in_rd, d_pc, destination_message,
                   payload_message, response, files, down_peer, written>>
    /\ UNCHANGED <<spawnerVars, installVars>>

\* drain_to_stream with the inbound stream: each message received is sent.
relay_send ==
    /\ d_pc = "relay"
    /\ InReady
    /\ forward_log' = Append(forward_log, EvSend(inbound[in_rd + 1]))
    /\ in_rd' = in_rd + 1
    /\ UNCHANGED <<is_local, inbound, in_sent, in_ended, d_pc, destination_message,
                   payload_message, response, files, d_gen, down_peer, written>>
    /\ UNCHANGED <<spawnerVars, installVars>>

\* drain_to_stream: the generator is exhausted (the inbound stream has ended);
\* stream-end is signalled on forward_stream.
drain_end_forward ==
    /\ \/ d_pc = "drain" /\ d_gen = <<>>
       \/ d_pc = "relay" /\ InAtEnd
    /\ forward_log' = Append(forward_log, EvEnd)
    /\ d_pc' = "drain_recv"
    /\ UNCHANGED <<is_local, inbound, in_sent, in_ended, in_rd, destination_message,
                   payload_message, response, files, d_gen, down_peer, written>>
    /\ UNCHANGED <<spawnerVars, installVars>>

\* drain_to_stream: one response is read from forward_stream and returned.
drain_recv_forward ==
    /\ d_pc = "drain_recv"
    /\ down_peer # NoResponse
    /\ response' = down_peer
    /\ down_peer' = NoResponse
    /\ forward_log' = Append(forward_log, EvRecv(down_peer))
    /\ d_pc' = "respond"
    /\ UNCHANGED <<is_local, inbound, in_sent, in_ended, in_rd, destination_message,
                   payload_message, files, d_gen, written>>
    /\ UNCHANGED <<spawnerVars, installVars>>

\* A relay that writes the response and stays where it was, to write it again.
write_response_again ==
    /\ d_pc = "respond"
    /\ Len(written) < 2
    /\ written' = Append(written, response)
    /\ UNCHANGED <<is_local, inbound, in_sent, in_ended, in_rd, d_pc, destination_message,
                   payload_message, response, files, d_gen, forward_log, down_peer>>
    /\ UNCHANGED <<spawnerVars, installVars>>

\* await stream.send_message(response): the last statement of daemon.
write_response ==
    /\ d_pc = "respond"
    /\ written' = Append(written, response)
    /\ d_pc' = "done"
    /\ UNCHANGED <<is_local, inbound, in_sent, in_ended, in_rd, destination_message,
                   payload_message, response, files, d_gen, forward_log, down_peer>>
    /\ UNCHANGED <<spawnerVars, installVars>>

\* The downstream peer answers once, after it has seen the end of the requests.
downstream_responds ==
    /\ HasEv(forward_log, "end")
    /\ ~HasEv(forward_log, "recv")
    /\ down_peer = NoResponse
    /\ down_peer' \in Responses
    /\ UNCHANGED <<is_local, inbound, in_sent, in_ended, in_rd, d_pc, destination_message,
                   payload_message, response, files, d_gen, forward_log, written>>
    /\ UNCHANGED <<spawnerVars, installVars>>

RelayNext ==
    \/ caller_sends
    \/ caller_ends
    \/ recv_destination
    \/ recv_payload
    \/ forward_destination
    \/ verbatim_payload
    \/ verbatim_end
    \/ verbatim_recv
    \/ file_path_generator
    \/ data_payload
    \/ unrecognised_payload
    \/ chunk_send
    \/ relay_send
    \/ drain_end_forward
    \/ drain_recv_forward
    \/ write_response
    \/ downstream_responds

\* --------------------------------------------------------- specifications

\* No supervisor is used.
SpawnerIdle ==
    /\ companion_path = ""
    /\ companion_processes = <<>>
    /\ call = [s \in Slots |-> NoCall]
    /\ proc = [s \in Slots |-> NoProc]
    /\ last_op = "init"
    /\ env = [spawns |-> 0, lines |-> 0, alphabet |-> {}]

\* The supervisor, used for several targets.
SpawnerSpecInit == SpawnerInit /\ InstallIdle /\ RelayIdle
SpawnerSpec == SpawnerSpecInit /\ [][SpawnerNext]_vars

\* The supervisor, used for one target whose companion writes several lines.
HandshakeSpecInit == HandshakeInit /\ InstallIdle /\ RelayIdle
HandshakeSpec == HandshakeSpecInit /\ [][SpawnerNext]_vars

\* One call of _install_to_destination.
InstallSpecInit == InstallInit /\ SpawnerIdle /\ RelayIdle
InstallSpec == InstallSpecInit /\ [][InstallNext]_vars

\* One call of daemon.
RelaySpecInit == RelayInit /\ SpawnerIdle /\ InstallIdle
RelaySpec == RelaySpecInit /\ [][RelayNext]_vars

\* A supervisor used for one target, whose companion writes up to two lines, none,
\* one that is skipped, or one that ends the handshake.
StallSpawnerInit ==
    /\ NewSpawner
    /\ env = [spawns |-> 1, lines |-> 2,
              alphabet |-> {LineEmptyObject, LineString, LinePortA}]

\* What the inbound caller of a relay that is not local sends when its first
\* payload message carries data: nothing more, or one more message; and the
\* callers that end their stream before the payload message.
DataScripts ==
    {<<>>, <<RequestDestination("APP")>>}
    \cup {<<RequestDestination("APP"), RequestPayload(PayloadData(Bytes("in", <<>>, 0, 1)))>> \o f :
            f \in SeqUpTo(FollowUps, 1)}

\* One call daemon(client, stream) of a relay that is not local.
RelayDataInit ==
    /\ is_local = FALSE
    /\ inbound \in DataScripts
    /\ in_sent = 0
    /\ in_ended = FALSE
    /\ in_rd = 0
    /\ d_pc = "recv_destination"
    /\ destination_message = RequestDestination("APP")
    /\ payload_message = RequestPayload(NoPayload)
    /\ response = NoResponse
    /\ files = NoFiles
    /\ d_gen = <<>>
    /\ forward_log = <<>>
    /\ down_peer = NoResponse
    /\ written = <<>>

\* A handshake and a relay session of the data branch, side by side. The event loop
\* runs a coroutine whose readline() can return: read_line is weakly fair. Nothing
\* makes the companion write or close, or the inbound caller end its stream.
StallSpecInit == StallSpawnerInit /\ InstallIdle /\ RelayDataInit
StallNext ==
    \/ \E u \in Udids : spawn_companion(u)
    \/ \E s \in Slots : subprocess_created(s)
    \/ \E s \in Slots : read_line(s)
    \/ \E s \in Slots : companion_exits(s)
    \/ caller_sends
    \/ caller_ends
    \/ recv_destination
    \/ recv_payload
    \/ forward_destination
    \/ data_payload
    \/ relay_send
    \/ drain_end_forward
    \/ drain_recv_forward
    \/ write_response
    \/ downstream_responds
StallSpec ==
    StallSpecInit /\ [][StallNext]_vars /\ \A s \in Slots : WF_vars(read_line(s))

\* ------------------------------------------------- CompanionSpawner: claims

Launched(s) == proc[s].status # "none"
Alive(s) == proc[s].status = "running"
InRegistry(s) == \E i \in 1..Len(companion_processes) : companion_processes[i] = s

\* Whether a line of standard output carries a grpc_port field.
HasPort(line) == json_loads(line).has_port

\* C1: a spawn that returned, followed immediately by kill_spawned_companion
\* (terminateAll), leaves no companion launched by the supervisor alive.
C1_SpawnThenTerminateAllLeavesNoneAlive ==
    [][(last_op = "spawn_return" /\ last_op' = "kill")
         => \A s \in Slots : proc'[s].status # "running"]_vars

\* C2: when the companion's standard output ends in a line {"grpc_port": P} with
\* P > 0, and the lines before it are lines without a grpc_port field, spawn
\* returns P.
C2_SpawnReturnsAnnouncedPort ==
    \A s \in Slots :
        LET ls == proc[s].stdout.lines
            n == Len(ls)
        IN  ( /\ call[s].pc = "done"
              /\ n > 0
              /\ HasPort(ls[n])
              /\ json_loads(ls[n]).port > 0
              /\ \A k \in 1..(n - 1) : ~HasPort(ls[k]) )
            => call[s].result = Returned(json_loads(ls[n]).port)

\* C3: when the companion's standard output closes and no line of it carried a
\* grpc_port field, spawn fails with HandshakeFailure and nothing else.
C3_ClosedWithoutPortIsHandshakeFailure ==
    \A s \in Slots :
        LET ls == proc[s].stdout.lines
        IN  ( /\ call[s].pc = "done"
              /\ Launched(s)
              /\ proc[s].stdout.closes \/ ~Alive(s)
              /\ \A k \in 1..Len(ls) : ~HasPort(ls[k]) )
            => call[s].result = Raised("HandshakeFailure")

FailedAs(s, kind) == call[s].pc = "done" /\ call[s].result.kind = kind

\* C4 as stated: a spawn that failed with ConfigurationError or HandshakeFailure
\* left no entry in the registry.
C4_FailedSpawnLeavesNoEntry ==
    \A s \in Slots :
        (FailedAs(s, "ConfigurationError") \/ FailedAs(s, "HandshakeFailure"))
            => ~InRegistry(s)

\* C4, amended: a spawn that failed with ConfigurationError launched nothing and
\* left no entry; a spawn that failed with HandshakeFailure left exactly one entry,
\* that of the process it launched (the entry is made at launch, not on success).
C4_FailedSpawnRegistry ==
    \A s \in Slots :
        /\ FailedAs(s, "ConfigurationError") => ~Launched(s) /\ ~InRegistry(s)
        /\ FailedAs(s, "HandshakeFailure") =>
              /\ Launched(s)
              /\ Cardinality({i \in 1..Len(companion_processes) :
                                companion_processes[i] = s}) = 1

C4_Witness ==
    \E s \in Slots : FailedAs(s, "HandshakeFailure") /\ InRegistry(s)

\* ------------------------------------------ _install_to_destination: claims

\* The messages sent on a stream, in order.
IsSend(e) == e.ev = "send"
Sends(log) == LET sent == SelectSeq(log, IsSend) IN [k \in 1..Len(sent) |-> sent[k].msg]
IsPrefix(a, b) == Len(a) <= Len(b) /\ a = SubSeq(b, 1, Len(a))

\* The payload messages of the session, in the order they are produced.
Produced ==
    IF i_bundle.kind = "str" THEN <<RequestPayload(i_payload)>>
    ELSE generate_io_chunks(i_bundle)

\* C5: in an install session the destination message is sent first, the payload
\* messages follow in the order they are produced, stream-end is signalled after
\* the last of them and nothing is sent after it, and the response is read only
\* after stream-end.
C5_SessionOrder ==
    LET expected == <<RequestDestination(i_destination)>> \o Produced IN
    /\ IsPrefix(Sends(i_log), expected)
    /\ \A k \in 1..Len(i_log) :
          /\ i_log[k].ev = "send" => \A j \in 1..(k - 1) : i_log[j].ev = "send"
          /\ i_log[k].ev = "end" => Sends(i_log) = expected
          /\ i_log[k].ev = "recv" => k > 1 /\ i_log[k - 1].ev = "end"

C5_Witness ==
    /\ i_pc = "done"
    /\ i_bundle.kind = "io"
    /\ Len(Sends(i_log)) >= 3
    /\ i_log[Len(i_log)].ev = "recv"

\* C6: a completed install session is one destination message, then one or more
\* payload or name-hint messages, then stream-end, then one response.
C6_SessionShape ==
    i_pc = "done" =>
        LET n == Len(i_log) IN
        /\ n >= 4
        /\ i_log[1] = EvSend(RequestDestination(i_destination))
        /\ \A k \in 2..(n - 2) :
              /\ i_log[k].ev = "send"
              /\ i_log[k].msg.which \in {"payload", "name_hint"}
        /\ i_log[n - 1].ev = "end"
        /\ i_log[n].ev = "recv"

\* ------------------------------------------------------------ daemon: claims

\* The daemon has read the destination message and the first payload message.
ReadBoth == in_rd >= 2
Failed == d_pc \in {"AssertionError", "FAILED_PRECONDITION", "Unrecognised payload message"}
Ended == d_pc = "done" \/ Failed
NothingPopulated == url = NoUrl /\ file_path = NoPath /\ data = NoData
SendEvents(msgs) == [k \in 1..Len(msgs) |-> EvSend(msgs[k])]

\* C7 as stated: a payload message with none of url, file_path, data populated
\* makes the session fail as unrecognised, and nothing is forwarded downstream.
C7_UnrecognisedForwardsNothing ==
    (ReadBoth /\ NothingPopulated) =>
        /\ forward_log = <<>>
        /\ Ended => d_pc = "Unrecognised payload message"

\* C7, amended: in a relay that is not local, such a payload message makes the
\* session fail as unrecognised; the destination message and nothing else is
\* forwarded downstream (no payload, no stream-end), and no response is written.
C7_UnrecognisedForwardsDestinationOnly ==
    (ReadBoth /\ NothingPopulated /\ ~is_local) =>
        /\ IsPrefix(forward_log, <<EvSend(destination_message)>>)
        /\ d_pc \in {"open", "branch", "Unrecognised payload message"}
        /\ d_pc = "Unrecognised payload message" =>
              forward_log = <<EvSend(destination_message)>>
        /\ written = <<>>

C7_Witness ==
    /\ ReadBoth /\ NothingPopulated /\ ~is_local
    /\ d_pc = "Unrecognised payload message"
    /\ forward_log = <<EvSend(destination_message)>>

\* C8 as stated: every relay session that has ended, failed ones included, has
\* written exactly one response to the inbound caller.
C8_EverySessionWritesOneResponse ==
    Ended => Len(written) = 1

\* C8, amended: a session that completes has written exactly one response, the
\* value of its variable response, as its last action; nothing is written before
\* that, and a session that fails has written none.
C8_CompletedSessionWritesOneResponse ==
    /\ Len(written) <= 1
    /\ d_pc = "done" <=> Len(written) = 1
    /\ d_pc = "done" => written = <<response>>
    /\ Failed => written = <<>>

C8_Witness ==
    d_pc = "done" /\ Len(written) = 1 /\ written[1] \in Responses

\* The relay is not local and the payload message carries a file path and no URL.
NonLocalFilePath == ReadBoth /\ ~is_local /\ url = NoUrl /\ file_path # NoPath

\* C9 as stated: in that case a session that has ended has forwarded the
\* destination message, the chunk sequence of (file_path, destination) and
\* stream-end, and has written the downstream response to the inbound caller.
C9_FilePathIsReencoded ==
    (NonLocalFilePath /\ Ended) =>
        LET g == generate_binary_chunks(file_path, destination, files) IN
        /\ forward_log = <<EvSend(destination_message)>> \o SendEvents(g.chunks)
                            \o <<EvEnd, EvRecv(response)>>
        /\ written = <<response>>

\* C9, amended: that holds when _generate_binary_chunks has a generator for
\* (file_path, destination); no message forwarded carries a file path; and when it
\* has none, the session fails with the destination message alone forwarded, no
\* stream-end and no response.
C9_FilePathIsReencodedWhenSupported ==
    NonLocalFilePath =>
        LET g == generate_binary_chunks(file_path, destination, files) IN
        /\ d_pc = "done" =>
              /\ g.ok
              /\ forward_log = <<EvSend(destination_message)>> \o SendEvents(g.chunks)
                                  \o <<EvEnd, EvRecv(response)>>
              /\ written = <<response>>
        /\ \A k \in 1..Len(forward_log) :
              forward_log[k].ev = "send" => forward_log[k].msg.payload.file_path = NoPath
        /\ Failed =>
              /\ d_pc = "FAILED_PRECONDITION"
              /\ ~g.ok
              /\ forward_log = <<EvSend(destination_message)>>
              /\ written = <<>>

C9_Witness ==
    /\ NonLocalFilePath
    /\ d_pc = "done"
    /\ destination = "DYLIB"
    /\ Len(Sends(forward_log)) >= 3
    /\ written = <<response>>

\* The relay is not local and the first payload message carries data only.
NonLocalData == ReadBoth /\ ~is_local /\ url = NoUrl /\ file_path = NoPath /\ data # NoData

\* C10: in that case the relay forwards the destination message, the first payload
\* message and every later inbound message, unchanged and in inbound order;
\* stream-end is signalled downstream only after the inbound stream has ended and
\* all of it is forwarded; the downstream response is then written to the caller.
C10_DataIsRelayedVerbatim ==
    NonLocalData =>
        /\ ~Failed
        /\ IsPrefix(Sends(forward_log), inbound)
        /\ Len(Sends(forward_log)) <= in_rd
        /\ d_pc \in {"relay", "drain_recv", "respond", "done"} =>
              Sends(forward_log) = SubSeq(inbound, 1, in_rd)
        /\ HasEv(forward_log, "end") => in_ended /\ Sends(forward_log) = inbound
        /\ d_pc = "done" =>
              /\ forward_log = SendEvents(inbound) \o <<EvEnd, EvRecv(response)>>
              /\ written = <<response>>

C10_Witness ==
    /\ NonLocalData
    /\ d_pc = "done"
    /\ Len(inbound) >= 4
    /\ inbound[3] # inbound[4]
    /\ written = <<response>>

\* The relay is local, or the payload message carries a URL.
VerbatimCase == ReadBoth /\ (is_local \/ url # NoUrl)

\* C11: in that case, whatever the other payload fields are, the relay forwards the
\* inbound destination message and the inbound payload message unchanged and
\* nothing else, then signals stream-end, then reads one response and writes it to
\* the caller; no chunk generator is selected, no further inbound message is read
\* and the session does not fail as unrecognised or unsupported.
C11_VerbatimTakesPrecedence ==
    VerbatimCase =>
        LET exchange == <<EvSend(inbound[1]), EvSend(inbound[2]), EvEnd, EvRecv(response)>> IN
        /\ ~Failed
        /\ IsPrefix(forward_log, exchange)
        /\ d_pc \in {"respond", "done"} => forward_log = exchange
        /\ d_pc = "done" => written = <<response>> /\ response \in Responses
        /\ in_rd = 2
        /\ files = NoFiles /\ d_gen = <<>>

C11_Witness ==
    /\ VerbatimCase
    /\ ~is_local /\ file_path # NoPath /\ data # NoData
    /\ Len(inbound) > 2
    /\ d_pc = "done"
    /\ Len(forward_log) = 4
    /\ written = <<response>>

\* ------------------------------------------------------ ChunkEncoder: claims

\* The relay has just selected (or failed to select) the generator for the file
\* path of the payload: d_gen holds everything the generator will yield.
AtSelection ==
    /\ NonLocalFilePath
    /\ d_pc \in {"drain", "FAILED_PRECONDITION"}
    /\ forward_log = <<EvSend(destination_message)>>

\* Every message is a payload whose data is a run of the source src over paths.
AllData(msgs, src, paths) ==
    \A k \in 1..Len(msgs) :
        /\ msgs[k].which = "payload"
        /\ msgs[k].payload.data.src = src
        /\ msgs[k].payload.data.of = paths
        /\ msgs[k].payload.url = NoUrl /\ msgs[k].payload.file_path = NoPath

\* The three encodings: the file read in blocks, the tar of a list of paths, the
\* base name followed by the gzip of the file.
IsFixedBlock(msgs, path) ==
    /\ AllData(msgs, "file", <<path>>)
    /\ Len(msgs) = (files.size + CHUNK_SIZE - 1) \div CHUNK_SIZE
IsTarOf(msgs, paths) ==
    AllData(msgs, "tar", paths) /\ Len(msgs) = files.chunks
IsNameHintThenGzip(msgs, path) ==
    /\ Len(msgs) = 1 + files.chunks
    /\ msgs[1].which = "name_hint"
    /\ AllData(Tail(msgs), "gzip", <<path>>)

\* C12: the generator selected for (destination, path): APP and .ipa, the file read
\* in blocks; APP and .app, the tar of the path; XCTEST, the tar of the expanded
\* paths; DYLIB, name hint then gzip; DSYM and FRAMEWORK, the tar of the path; APP
\* and any other suffix, FAILED_PRECONDITION with no message produced.
C12_StrategySelection ==
    AtSelection =>
        LET p == file_path
            d == destination
            supported == d # "APP" \/ p.ext \in {".ipa", ".app"}
        IN
        /\ d_pc = "drain" <=> supported
        /\ ~supported => d_gen = <<>>
        /\ (d = "APP" /\ p.ext = ".ipa") => IsFixedBlock(d_gen, p)
        /\ (d = "APP" /\ p.ext = ".app") => IsTarOf(d_gen, <<p>>)
        /\ d = "XCTEST" => IsTarOf(d_gen, xctest_paths_to_tar(p))
        /\ d = "DYLIB" => IsNameHintThenGzip(d_gen, p)
        /\ d \in {"DSYM", "FRAMEWORK"} => IsTarOf(d_gen, <<p>>)

C12_Witness ==
    /\ AtSelection
    /\ destination = "APP"
    /\ file_path.ext = ".framework"
    /\ d_pc = "FAILED_PRECONDITION"
    /\ d_gen = <<>>

\* The messages are payloads whose data are consecutive non-empty runs of one
\* source, from byte 0 to byte n, none longer than CHUNK_SIZE; none when n = 0.
IsChunking(msgs, n) ==
    LET run(k) == msgs[k].payload.data IN
    /\ n = 0 <=> msgs = <<>>
    /\ \A k \in 1..Len(msgs) :
          /\ msgs[k].which = "payload"
          /\ run(k).len >= 1 /\ run(k).len <= CHUNK_SIZE
          /\ run(k).src = run(1).src /\ run(k).of = run(1).of
          /\ run(k).off = IF k = 1 THEN 0 ELSE run(k - 1).off + run(k - 1).len
          /\ k = Len(msgs) => run(k).off + run(k).len = n

\* All but the last of the messages carry exactly CHUNK_SIZE bytes.
FullBlocks(msgs) ==
    \A k \in 1..(Len(msgs) - 1) : msgs[k].payload.data.len = CHUNK_SIZE

\* The orchestrator has just created the generator over its byte stream.
AtIoGenerator == i_pc = "drain" /\ i_log = <<EvSend(RequestDestination(i_destination))>>

\* C13 as stated: the chunks of an .ipa file or of any open byte stream are
\* non-empty, at most CHUNK_SIZE bytes, all but the last exactly CHUNK_SIZE bytes,
\* and their concatenation is the source; a source of 0 bytes yields no chunk.
C13_FixedBlockChunks ==
    /\ AtIoGenerator => IsChunking(i_gen, i_bundle.size) /\ FullBlocks(i_gen)
    /\ \A fs \in FileSystems :
          LET chunks == generate_ipa_chunks([dir |-> "/tmp", name |-> "x", ext |-> ".ipa"], fs) IN
          IsChunking(chunks, fs.size) /\ FullBlocks(chunks)

\* C13, amended: the chunks are non-empty, at most CHUNK_SIZE bytes, and their
\* concatenation is the source, with no chunk for a source of 0 bytes; all but the
\* last are exactly CHUNK_SIZE bytes for an .ipa file and for a byte stream whose
\* reads return whole blocks. A chunk is whatever one read returns: a stream whose
\* read returns fewer bytes than asked for before its end yields a shorter chunk.
C13_ChunksAreTheReads ==
    /\ AtIoGenerator =>
          /\ IsChunking(i_gen, i_bundle.size)
          /\ i_bundle.first = CHUNK_SIZE => FullBlocks(i_gen)
          /\ i_gen # <<>> => i_gen[1].payload.data.len = io_read(i_bundle, 0)
    /\ \A fs \in FileSystems :
          LET chunks == generate_ipa_chunks([dir |-> "/tmp", name |-> "x", ext |-> ".ipa"], fs) IN
          IsChunking(chunks, fs.size) /\ FullBlocks(chunks)

C13_Witness ==
    /\ AtIoGenerator
    /\ i_bundle.size = 2 * CHUNK_SIZE + 1
    /\ i_bundle.first = CHUNK_SIZE
    /\ Len(i_gen) = 3
    /\ i_gen[3].payload.data.len = 1

\* C14: the messages of the DYLIB encoding of a path: the first is a name hint
\* whose value is the last component of the path, without its directory; it is the
\* only name hint; every later message is a payload carrying the next chunk of the
\* gzip of the file, in the compressor's order.
C14_DylibNameHintFirst ==
    (AtSelection /\ destination = "DYLIB") =>
        /\ Len(d_gen) = 1 + files.chunks
        /\ d_gen[1].which = "name_hint"
        /\ d_gen[1].name_hint = [name |-> file_path.name, ext |-> file_path.ext]
        /\ d_gen[1].payload = NoPayload
        /\ \A k \in 2..Len(d_gen) :
              /\ d_gen[k].which = "payload"
              /\ d_gen[k].name_hint = NoName
              /\ d_gen[k].payload.data = Bytes("gzip", <<file_path>>, k - 1, 1)

C14_Witness ==
    /\ AtSelection /\ destination = "DYLIB"
    /\ file_path = [dir |-> "/tmp", name |-> "x", ext |-> ".dylib"]
    /\ Len(d_gen) = 3
    /\ d_gen[1] = RequestNameHint([name |-> "x", ext |-> ".dylib"])

\* ------------------------------------- CompanionSpawner: registry claims

\* The number of entries of the registry that are process s.
Entries(s) == Cardinality({i \in 1..Len(companion_processes) : companion_processes[i] = s})
LaunchedSlots == {s \in Slots : Launched(s)}

\* C15: with spawn calls interleaved at their suspension points, each process
\* launched has exactly one entry in the registry and the registry holds nothing
\* else, and a spawn that returns returns the port of the line it read from the
\* standard output of its own process.
C15_ConcurrentSpawnsAreIndependent ==
    /\ \A s \in Slots : Entries(s) = (IF Launched(s) THEN 1 ELSE 0)
    /\ Len(companion_processes) = Cardinality(LaunchedSlots)
    /\ \A s \in Slots :
          call[s].result.kind = "return" =>
              /\ Launched(s) /\ proc[s].rd >= 1
              /\ proc[s].udid = call[s].udid
              /\ call[s].result.port = json_loads(proc[s].stdout.lines[proc[s].rd]).port

\* Two calls for distinct targets, the second of which created its process first,
\* have both returned, each with the port of its own companion.
C15_Witness ==
    /\ companion_processes = <<2, 1>>
    /\ call[1].udid # call[2].udid
    /\ call[1].result = Returned(10882)
    /\ call[2].result = Returned(10883)

\* C16: the registry holds at most one live process for each target.
C16_OneLiveRecordPerTarget ==
    \A u \in Udids :
        Cardinality({i \in 1..Len(companion_processes) :
                        /\ proc[companion_processes[i]].udid = u
                        /\ Alive(companion_processes[i])}) <= 1

\* C17: after kill_spawned_companion, and after close, no process of the registry
\* is left running: one that had already exited does not keep those after it from
\* being signalled.
C17_EveryTrackedProcessIsSignalled ==
    [][(kill_spawned_companion \/ close)
         => \A s \in Slots : InRegistry(s) => proc'[s].status # "running"]_vars

\* C18: the registry only grows, by one entry appended at the creation of a
\* process by spawn; kill_spawned_companion and close leave it as it is.
C18_RegistryIsAppendOnly ==
    [][/\ IsPrefix(companion_processes, companion_processes')
       /\ companion_processes' # companion_processes =>
             \E s \in Slots :
                /\ call[s].pc = "creating" /\ call'[s].pc = "reading"
                /\ companion_processes' = Append(companion_processes, s)
       /\ (kill_spawned_companion \/ close) =>
             companion_processes' = companion_processes]_vars

\* close() has stopped a process, which has since been waited for, and its entry
\* is still there.
C18_Witness ==
    /\ last_op = "close"
    /\ \E s \in Slots :
          /\ InRegistry(s)
          /\ proc[s].status = "reaped"
          /\ call[s].result.kind = "return"

\* C20: every launched process is in the registry, and a kill_spawned_companion
\* that runs while its handshake is in flight or after its handshake failed leaves
\* it signalled.
C20_LaunchedProcessIsTrackedAndSignalled ==
    [][/\ \A s \in Slots : Launched(s)' => InRegistry(s)'
       /\ kill_spawned_companion =>
             \A s \in Slots :
                (call[s].pc = "reading" \/ FailedAs(s, "HandshakeFailure"))
                    => proc'[s].status # "running"]_vars

\* ------------------------------------------------- no timeout: claims

\* A line that _read_stream skips: it parses, and to a falsy value.
Skipped(line) == json_loads(line).kind # "JSONDecodeError" /\ ~json_loads(line).truthy

\* The companion of call s is running, keeps its standard output open, and writes
\* nothing but lines that are skipped.
Silent(s) ==
    /\ Alive(s)
    /\ ~proc[s].stdout.closes
    /\ \A k \in 1..Len(proc[s].stdout.lines) : Skipped(proc[s].stdout.lines[k])

\* The handshake of call s is in flight.
Reading(s) == call[s].pc = "reading"

\* C19: the handshake has no timeout. While the companion is silent, spawn does not
\* complete; when the companion writes a line that is not skipped, closes its
\* standard output or exits, spawn completes. In the same way a relay in the data
\* branch signals no stream-end downstream and writes no response while the
\* inbound caller has not ended its stream.
C19_NoTimeout ==
    /\ [](\A s \in Slots : (Launched(s) /\ Silent(s)) => Reading(s))
    /\ \A s \in Slots : (Reading(s) /\ ~Silent(s)) ~> (call[s].pc = "done")
    /\ []((NonLocalData /\ ~in_ended) =>
            /\ ~HasEv(forward_log, "end")
            /\ written = <<>>
            /\ d_pc \in {"open", "branch", "relay"})

\* Both sessions are stalled: every line of the silent companion has been read,
\* and every message of the inbound caller, who has not ended its stream, has been
\* forwarded.
C19_Witness ==
    /\ Reading(1) /\ Silent(1)
    /\ Len(proc[1].stdout.lines) = 2 /\ proc[1].rd = 2
    /\ NonLocalData /\ ~in_ended
    /\ d_pc = "relay"
    /\ in_rd = Len(inbound) /\ Len(inbound) = 3
    /\ Sends(forward_log) = inbound

=============================================================================
